---- MODULE Spec2Model ----
(***************************************************************************)
(* Botswana Health Indicators Tracker (src/app.py).                        *)
(*                                                                         *)
(* Floating point values are modelled as exact rationals <<n, d>> with     *)
(* d > 0 in lowest terms; text is modelled as a sequence of one-character  *)
(* strings so that substring search, lower-casing and lexicographic        *)
(* sorting are computed, not assumed.  Python's None is the empty tuple.   *)
(***************************************************************************)
EXTENDS Integers, Sequences, FiniteSets, TLC

VARIABLES
    raw,                \* clean_who_botswana: the raw frame handed to it
    cleaned,            \* clean_who_botswana: its outcome (None before the call)
    points,             \* classify_trend: the yearly points handed to it
    trend,              \* classify_trend: its result (None before the call)
    name_in,            \* describe_indicator: the indicator name handed to it
    text_out,           \* describe_indicator: the returned text (NoText before)
    df,                 \* what load_data returned (line 238; cached for the session)
    session_state,      \* st.session_state: the keys of the three widgets
    slider,             \* the year slider as rendered by the last run (None: no slider)
    filters_offered,    \* the last run rendered the sidebar filters
    selected_indicator, \* line 258
    selected_breakdown, \* line 278
    year_range,         \* lines 291 / 301
    df_yearly,          \* line 317
    stage,              \* where the script run ended
    messages,           \* the st.error / st.warning / st.info messages of the run
    trend_info,         \* line 329 (None when not reached)
    narrative,          \* line 330 (None when not reached)
    indicator_explainer,\* line 331 (NoText when not reached)
    trends_df,          \* line 405 (None when not reached)
    propagated,         \* an exception escaped get_google_trends into the script
    last_op,            \* the interaction that caused the last script run
    prev_breakdown      \* st.session_state["breakdown"] before that interaction

vars == <<raw, cleaned, points, trend, name_in, text_out, df, session_state,
          slider, filters_offered, selected_indicator,
          selected_breakdown, year_range, df_yearly, stage, messages,
          trend_info, narrative, indicator_explainer, trends_df, propagated,
          last_op, prev_breakdown>>

cleanVars == <<raw, cleaned>>
trendVars == <<points, trend>>
describeVars == <<name_in, text_out>>
appVars == <<df, session_state, slider, filters_offered,
             selected_indicator, selected_breakdown, year_range, df_yearly,
             stage, messages, trend_info, narrative, indicator_explainer,
             trends_df, propagated, last_op, prev_breakdown>>

None == <<>>

\* no text yet
NoText == ""

(***************************************************************************)
(* Number arithmetic (Python float operators, modelled exactly).           *)
(***************************************************************************)
Abs(x) == IF x < 0 THEN -x ELSE x

RECURSIVE GCD(_, _)
GCD(a, b) == IF b = 0 THEN a ELSE GCD(b, a % b)

\* the number n/d, d # 0, in lowest terms with a positive denominator
Rat(n, d) ==
    LET g == GCD(Abs(n), Abs(d))
        s == IF d < 0 THEN -1 ELSE 1
    IN  <<(s * n) \div g, (s * d) \div g>>

FromInt(i) == <<i, 1>>

Zero == FromInt(0)

RSub(a, b) == Rat(a[1] * b[2] - b[1] * a[2], a[2] * b[2])

RAdd(a, b) == Rat(a[1] * b[2] + b[1] * a[2], a[2] * b[2])

RMul(a, b) == Rat(a[1] * b[1], a[2] * b[2])

\* a / b for b # 0
RDiv(a, b) == Rat(a[1] * b[2], a[2] * b[1])

RLt(a, b) == a[1] * b[2] < b[1] * a[2]

RGt(a, b) == RLt(b, a)

(***************************************************************************)
(* classify_trend (lines 141-179).                                         *)
(***************************************************************************)
Threshold == 10

Hundred == 100

classify_trend_NegThresholdSign(df_y) ==
    LET first_row == df_y[1]
        last_row == df_y[Len(df_y)]
        start_val == first_row.value
        end_val == last_row.value
        absolute_change == RSub(end_val, start_val)
        percent_change ==
            IF start_val = Zero THEN None
            ELSE RMul(RDiv(absolute_change, start_val), FromInt(Hundred))
        label ==
            IF percent_change = None THEN "uncertain"
            ELSE IF RGt(percent_change, FromInt(Threshold)) THEN "increasing"
            ELSE IF RLt(percent_change, FromInt(Threshold)) THEN "decreasing"
            ELSE "relatively stable"
    IN  [start_year |-> first_row.year, end_year |-> last_row.year,
         start_val |-> start_val, end_val |-> end_val,
         absolute_change |-> absolute_change,
         percent_change |-> percent_change, label |-> label]

classify_trend_InclusiveThreshold(df_y) ==
    LET first_row == df_y[1]
        last_row == df_y[Len(df_y)]
        start_val == first_row.value
        end_val == last_row.value
        absolute_change == RSub(end_val, start_val)
        percent_change ==
            IF start_val = Zero THEN None
            ELSE RMul(RDiv(absolute_change, start_val), FromInt(Hundred))
        label ==
            IF percent_change = None THEN "uncertain"
            ELSE IF ~RLt(percent_change, FromInt(Threshold)) THEN "increasing"
            ELSE IF RLt(percent_change, FromInt(-Threshold)) THEN "decreasing"
            ELSE "relatively stable"
    IN  [start_year |-> first_row.year, end_year |-> last_row.year,
         start_val |-> start_val, end_val |-> end_val,
         absolute_change |-> absolute_change,
         percent_change |-> percent_change, label |-> label]

classify_trend(df_y) ==
    LET first_row == df_y[1]
        last_row == df_y[Len(df_y)]
        start_val == first_row.value
        end_val == last_row.value
        absolute_change == RSub(end_val, start_val)
        percent_change ==
            IF start_val = Zero THEN None
            ELSE RMul(RDiv(absolute_change, start_val), FromInt(Hundred))
        label ==
            IF percent_change = None THEN "uncertain"
            ELSE IF RGt(percent_change, FromInt(Threshold)) THEN "increasing"
            ELSE IF RLt(percent_change, FromInt(-Threshold)) THEN "decreasing"
            ELSE "relatively stable"
    IN  [start_year |-> first_row.year, end_year |-> last_row.year,
         start_val |-> start_val, end_val |-> end_val,
         absolute_change |-> absolute_change,
         percent_change |-> percent_change, label |-> label]

(***************************************************************************)
(* Text.  A string is a tuple of one-character strings.  Alphabet lists    *)
(* the characters the model uses in ascending code-point order, so Ord is  *)
(* order-isomorphic to Python's ord on them.                               *)
(***************************************************************************)
Alphabet == <<" ", "#", "(", ")", ",", "-",
              "0", "1", "2", "3", "4", "5", "6", "7", "8", "9",
              "A", "B", "F", "H", "I", "M", "N", "O", "S", "T", "U", "V",
              "a", "b", "c", "d", "e", "f", "g", "h", "i", "k", "l", "m", "n",
              "o", "r", "s", "t", "u", "v", "w", "x", "y", "~">>   \* "~" stands for the en dash U+2013

Ord(c) == CHOOSE i \in 1..Len(Alphabet) : Alphabet[i] = c

\* str.lower() on one character
LowerChar(c) ==
    CASE c = "A" -> "a" [] c = "B" -> "b" [] c = "F" -> "f" [] c = "H" -> "h"
      [] c = "I" -> "i" [] c = "M" -> "m" [] c = "N" -> "n" [] c = "O" -> "o" [] c = "S" -> "s"
      [] c = "T" -> "t" [] c = "U" -> "u" [] c = "V" -> "v" [] OTHER -> c

\* str.lower()
Lower(s) == [i \in 1..Len(s) |-> LowerChar(s[i])]

\* needle in hay
Contains(hay, needle) ==
    \E i \in 0..(Len(hay) - Len(needle)) :
        SubSeq(hay, i + 1, i + Len(needle)) = needle

\* s.startswith(prefix)
StartsWith(s, prefix) ==
    Len(s) >= Len(prefix) /\ SubSeq(s, 1, Len(prefix)) = prefix

\* s < t, Python's lexicographic order on strings
StrLess(s, t) ==
    \E k \in 1..(Len(t)) :
        /\ k <= Len(s) + 1
        /\ \A j \in 1..(k - 1) : s[j] = t[j]
        /\ \/ k = Len(s) + 1
           \/ (k <= Len(s) /\ Ord(s[k]) < Ord(t[k]))

\* sorted(S) for a set of strings
RECURSIVE SortedStrings(_)
SortedStrings(S) ==
    IF S = {} THEN <<>>
    ELSE LET m == CHOOSE x \in S : \A y \in S \ {x} : StrLess(x, y)
         IN  <<m>> \o SortedStrings(S \ {m})

\* sorted(S) for a set of integers
RECURSIVE SortedInts(_)
SortedInts(S) ==
    IF S = {} THEN <<>>
    ELSE LET m == CHOOSE x \in S : \A y \in S : x <= y
         IN  <<m>> \o SortedInts(S \ {m})

\* s.split(sep)[0]
SplitFirst(s, sep) ==
    IF \E i \in 1..Len(s) : s[i] = sep
    THEN LET k == CHOOSE i \in 1..Len(s) :
                      s[i] = sep /\ \A j \in 1..(i - 1) : s[j] # sep
         IN  SubSeq(s, 1, k - 1)
    ELSE s

\* s[:n]
Truncate(s, n) == IF Len(s) > n THEN SubSeq(s, 1, n) ELSE s

Range(f) == {f[i] : i \in DOMAIN f}

(***************************************************************************)
(* describe_indicator (lines 96-138).  The returned paragraphs are named   *)
(* by their opening words.                                                 *)
(***************************************************************************)
KW_infant == <<"i", "n", "f", "a", "n", "t">>
KW_neonatal == <<"n", "e", "o", "n", "a", "t", "a", "l">>
KW_under_five == <<"u", "n", "d", "e", "r", "-", "f", "i", "v", "e">>
KW_adolescent == <<"a", "d", "o", "l", "e", "s", "c", "e", "n", "t">>
KW_maternal == <<"m", "a", "t", "e", "r", "n", "a", "l">>
KW_hiv == <<"h", "i", "v">>
KW_tb == <<"t", "b">>
KW_tuberculosis == <<"t", "u", "b", "e", "r", "c", "u", "l", "o", "s", "i", "s">>
KW_suicide == <<"s", "u", "i", "c", "i", "d", "e">>

TextChild == "This indicator tracks deaths among very young children."
TextAdolescent == "This indicator focuses on health outcomes among adolescents."
TextMaternal == "This indicator relates to the health and survival of mothers"
TextHiv == "This indicator describes HIV-related burden or services."
TextTb == "This indicator relates to tuberculosis burden or control."
TextSuicide == "This indicator tracks deaths due to suicide."
TextGeneric == "This indicator reflects a specific health outcome or service coverage"

describe_indicator_HivFirst(indicator_name) ==
    LET name == Lower(indicator_name)
    IN  IF Contains(name, KW_infant) \/ Contains(name, KW_neonatal)
           \/ Contains(name, KW_under_five) THEN TextChild
        ELSE IF Contains(name, KW_adolescent) THEN TextAdolescent
        ELSE IF Contains(name, KW_hiv) THEN TextHiv
        ELSE IF Contains(name, KW_maternal) THEN TextMaternal
        ELSE IF Contains(name, KW_tb) \/ Contains(name, KW_tuberculosis) THEN TextTb
        ELSE IF Contains(name, KW_suicide) THEN TextSuicide
        ELSE TextGeneric

describe_indicator(indicator_name) ==
    LET name == Lower(indicator_name)
    IN  IF Contains(name, KW_infant) \/ Contains(name, KW_neonatal)
           \/ Contains(name, KW_under_five) THEN TextChild
        ELSE IF Contains(name, KW_adolescent) THEN TextAdolescent
        ELSE IF Contains(name, KW_maternal) THEN TextMaternal
        ELSE IF Contains(name, KW_hiv) THEN TextHiv
        ELSE IF Contains(name, KW_tb) \/ Contains(name, KW_tuberculosis) THEN TextTb
        ELSE IF Contains(name, KW_suicide) THEN TextSuicide
        ELSE TextGeneric

(***************************************************************************)
(* make_trend_narrative (lines 182-225).  A narrative is the template      *)
(* chosen and the values interpolated into it.                             *)
(***************************************************************************)
RECURSIVE Pow10(_)
Pow10(k) == IF k = 0 THEN 1 ELSE 10 * Pow10(k - 1)

\* round(x, k) and format(x, ".kf"): to k decimals, ties to even
RoundTo(x, k) ==
    LET n == x[1] * Pow10(k)
        d == x[2]
        q == n \div d
        rem == n - q * d
        up == \/ 2 * rem > d
              \/ (2 * rem = d /\ q % 2 = 1)
    IN  Rat(IF up THEN q + 1 ELSE q, Pow10(k))

ValueDecimals == 2

PercentDecimals == 1

PctUncertainText == "an uncertain percentage change (starting value was zero)"

make_trend_narrative(indicator_name, info) ==
    LET label == info.label
        start_val_r == RoundTo(info.start_val, ValueDecimals)
        end_val_r == RoundTo(info.end_val, ValueDecimals)
        pct_txt == IF info.percent_change = None THEN <<PctUncertainText>>
                   ELSE <<"about", RoundTo(info.percent_change, PercentDecimals), "%">>
    IN  IF label = "increasing" THEN
            [template |-> "increased", start_year |-> info.start_year,
             end_year |-> info.end_year, start_val |-> start_val_r,
             end_val |-> end_val_r, pct |-> pct_txt]
        ELSE IF label = "decreasing" THEN
            [template |-> "decreased", start_year |-> info.start_year,
             end_year |-> info.end_year, start_val |-> start_val_r,
             end_val |-> end_val_r, pct |-> pct_txt]
        ELSE IF label = "relatively stable" THEN
            [template |-> "stayed relatively stable", start_year |-> info.start_year,
             end_year |-> info.end_year, end_val |-> end_val_r, pct |-> pct_txt]
        ELSE
            [template |-> "changed", start_year |-> info.start_year,
             end_year |-> info.end_year, start_val |-> start_val_r,
             end_val |-> end_val_r]

(***************************************************************************)
(* clean_who_botswana (lines 18-55).  A raw cell is one of                 *)
(*   [t |-> "nan"]  [t |-> "int", v |-> i]  [t |-> "str", s |-> text].     *)
(* A raw row has the cells year_display, gho_code, numeric, dimension_type *)
(* and dimension_name and the texts gho_display and country_display.       *)
(***************************************************************************)
NaN == [t |-> "nan"]

IntCell(i) == [t |-> "int", v |-> i]

StrCell(s) == [t |-> "str", s |-> s]

Digits == <<"0", "1", "2", "3", "4", "5", "6", "7", "8", "9">>

DigitValue(c) == (CHOOSE i \in 1..Len(Digits) : Digits[i] = c) - 1

IsDigits(s) == Len(s) > 0 /\ \A i \in 1..Len(s) : s[i] \in Range(Digits)

RECURSIVE ParseDigits(_)
ParseDigits(s) ==
    IF Len(s) = 0 THEN 0
    ELSE 10 * ParseDigits(SubSeq(s, 1, Len(s) - 1)) + DigitValue(s[Len(s)])

RECURSIVE NatToStr(_)
NatToStr(i) ==
    IF i < 10 THEN <<Digits[i + 1]>>
    ELSE NatToStr(i \div 10) \o <<Digits[(i % 10) + 1]>>

\* Series.astype(str) on one cell
AsStr(cell) ==
    IF cell.t = "str" THEN cell.s
    ELSE IF cell.t = "int" THEN NatToStr(cell.v)
    ELSE <<"n", "a", "n">>

\* Series.astype(int) succeeds on this cell
IntParses(cell) == cell.t = "int" \/ (cell.t = "str" /\ IsDigits(cell.s))

AsInt(cell) == IF cell.t = "int" THEN cell.v ELSE ParseDigits(cell.s)

\* Series.astype(float) succeeds on this cell
FloatParses(cell) ==
    cell.t = "int" \/ cell.t = "nan" \/ (cell.t = "str" /\ IsDigits(cell.s))

AsFloat(cell) == FromInt(IF cell.t = "int" THEN cell.v ELSE ParseDigits(cell.s))

Hash == <<"#">>

TextNone == <<"N", "o", "n", "e">>

TextAll == <<"A", "l", "l">>

\* " - " with the en dash
BreakdownJoin == <<" ", "~", " ">>

\* Series.fillna(text) on one cell
FillNa(cell, text) == IF cell.t = "nan" THEN text ELSE AsStr(cell)

Raised == [raised |-> TRUE]

CleanRow(r) ==
    LET dim_type == FillNa(r.dimension_type, TextNone)
        dim_name == FillNa(r.dimension_name, TextAll)
    IN  [gho_code |-> AsStr(r.gho_code), gho_display |-> r.gho_display,
         year |-> AsInt(r.year_display), value |-> AsFloat(r.numeric),
         country_display |-> r.country_display,
         dimension_type |-> r.dimension_type,
         dimension_name |-> r.dimension_name,
         breakdown |-> dim_type \o BreakdownJoin \o dim_name]

NoHashYear(r) == ~StartsWith(AsStr(r.year_display), Hash)

NoHashCode(r) == ~StartsWith(AsStr(r.gho_code), Hash)

HasNumeric(r) == r.numeric.t # "nan"

\* df.dropna(subset=["Numeric"])
dropna_Numeric(frame) == SelectSeq(frame, HasNumeric)

clean_who_botswana(df_raw) ==
    LET df1 == SelectSeq(df_raw, NoHashYear)
        df2 == SelectSeq(df1, NoHashCode)
        df3 == dropna_Numeric(df2)
    IN  IF \E i \in 1..Len(df3) : ~IntParses(df3[i].year_display) THEN Raised
        ELSE IF \E i \in 1..Len(df3) : ~FloatParses(df3[i].numeric) THEN Raised
        ELSE [raised |-> FALSE, rows |-> [i \in 1..Len(df3) |-> CleanRow(df3[i])]]

(***************************************************************************)
(* load_data (lines 58-70).  A source is [readable, rows]; the result is   *)
(* the frame and the st.error messages, or the exception that escaped.     *)
(***************************************************************************)
\* a message shown by st.error / st.warning / st.info, and what it is about
Msg(text, about) == [text |-> text, about |-> about]

MsgReadFailed == Msg("Could not read data file", None)
MsgNoValidRows == Msg("Data file loaded, but no valid rows after cleaning.", None)

load_data(source) ==
    IF ~source.readable THEN
        [raised |-> FALSE, rows |-> <<>>, errors |-> {MsgReadFailed}]
    ELSE LET c == clean_who_botswana(source.rows)
         IN  IF c.raised THEN Raised
             ELSE [raised |-> FALSE, rows |-> c.rows,
                   errors |-> IF c.rows = <<>> THEN {MsgNoValidRows} ELSE {}]

(***************************************************************************)
(* get_google_trends (lines 73-93).  The provider's response is either an  *)
(* exception or a frame [n_rows, columns].                                 *)
(***************************************************************************)
EmptyFrame == [n_rows |-> 0, columns |-> {}]

\* DataFrame.empty
IsEmpty(frame) == frame.n_rows = 0 \/ frame.columns = {}

MsgTrendsFailed(keyword) == Msg("Could not load Google Trends data", keyword)

get_google_trends_NoExcept(keyword, response) ==
    IF response.raises THEN Raised
    ELSE IF IsEmpty(response.frame) THEN
        [raised |-> FALSE, frame |-> response.frame, warnings |-> {}]
    ELSE [raised |-> FALSE,
          frame |-> [response.frame EXCEPT !.columns = @ \ {"isPartial"}],
          warnings |-> {}]

get_google_trends(keyword, response) ==
    IF response.raises THEN
        [raised |-> FALSE, frame |-> EmptyFrame,
         warnings |-> {MsgTrendsFailed(keyword)}]
    ELSE IF IsEmpty(response.frame) THEN
        [raised |-> FALSE, frame |-> response.frame, warnings |-> {}]
    ELSE [raised |-> FALSE,
          frame |-> [response.frame EXCEPT !.columns = @ \ {"isPartial"}],
          warnings |-> {}]

(***************************************************************************)
(* The script (lines 232-429): st.session_state, the sidebar widgets, the  *)
(* filter, the aggregation and the two tabs.                               *)
(***************************************************************************)
\* "All breakdowns (average)"
Sentinel == <<"A", "l", "l", " ", "b", "r", "e", "a", "k", "d", "o", "w", "n", "s", " ", "(", "a", "v", "e", "r", "a", "g", "e", ")">>

TextBotswana == <<" ", "B", "o", "t", "s", "w", "a", "n", "a">>

MaxKeywordLen == 80

MsgNoData == Msg("No data available for this combination of indicator, breakdown, and years.", None)
MsgSingleYear == Msg("Only data for year is available for this indicator/breakdown.", None)
MsgNoTrends == Msg("No Google Trends data returned for this topic / timeframe.", None)

EmptyState == [k \in {} |-> None]

\* st.session_state[key] = value
Put(ss, key, value) ==
    [k \in (DOMAIN ss) \cup {key} |-> IF k = key THEN value ELSE ss[k]]

\* del st.session_state[key]
Del(ss, key) == [k \in (DOMAIN ss) \ {key} |-> ss[k]]

\* options.index(x), counted from 0
IndexOf(options, x) ==
    (CHOOSE i \in 1..Len(options) :
        options[i] = x /\ \A j \in 1..(i - 1) : options[j] # x) - 1

\* st.selectbox(options, index, key): the value kept under key when it is
\* one of the options, else options[index]
selectbox(options, index, key, ss) ==
    IF key \in DOMAIN ss /\ ss[key] \in Range(options) THEN ss[key]
    ELSE options[index + 1]

Max(a, b) == IF a >= b THEN a ELSE b

Min(a, b) == IF a <= b THEN a ELSE b

SetMin(S) == CHOOSE x \in S : \A y \in S : x <= y

SetMax(S) == CHOOSE x \in S : \A y \in S : x >= y

\* sorted(df["GHO (DISPLAY)"].unique())
indicator_names(rows) == SortedStrings({rows[i].gho_display : i \in DOMAIN rows})

\* df[df["GHO (DISPLAY)"] == selected_indicator]
ByIndicator(rows, ind) ==
    LET Keep(r) == r.gho_display = ind IN SelectSeq(rows, Keep)

breakdown_options_display_AllIndicators(rows, ind) ==
    <<Sentinel>> \o SortedStrings({rows[i].breakdown : i \in DOMAIN rows})

\* ["All breakdowns (average)"] + sorted(df_ind_all["breakdown"].unique())
breakdown_options_display(rows, ind) ==
    LET df_ind_all == ByIndicator(rows, ind)
    IN  <<Sentinel>> \o SortedStrings({df_ind_all[i].breakdown : i \in DOMAIN df_ind_all})

default_breakdown_index(options, ss) ==
    IF "breakdown" \in DOMAIN ss /\ ss["breakdown"] \in Range(options)
    THEN IndexOf(options, ss["breakdown"])
    ELSE 0

min_year(rows, ind) ==
    LET df_ind_all == ByIndicator(rows, ind)
    IN  SetMin({df_ind_all[i].year : i \in DOMAIN df_ind_all})

max_year(rows, ind) ==
    LET df_ind_all == ByIndicator(rows, ind)
    IN  SetMax({df_ind_all[i].year : i \in DOMAIN df_ind_all})

\* lines 294-299: the value handed to st.slider
slider_default(lo, hi, ss) ==
    IF "year_range" \in DOMAIN ss
    THEN <<Max(lo, ss["year_range"][1]), Min(hi, ss["year_range"][2])>>
    ELSE <<lo, hi>>

\* st.slider(min_value, max_value, value, key): the values it can return.
\* A slider whose bounds are those of the last run keeps the value stored
\* under its key; otherwise it starts from `value`, which the widget takes
\* with its two ends exchanged when start > end.
slider_returns(lo, hi, value, ss, last) ==
    {IF value[1] > value[2] THEN <<value[2], value[1]>> ELSE value}
    \cup (IF /\ "year_range" \in DOMAIN ss
             /\ last # None
             /\ last.min_value = lo /\ last.max_value = hi
          THEN {ss["year_range"]} ELSE {})

\* the sidebar (lines 243-307): every outcome it can have
Sidebar(rows, ss, last) ==
    LET names == indicator_names(rows)
        ind == selectbox(names, 0, "indicator", ss)
        options == breakdown_options_display(rows, ind)
        bd == selectbox(options, default_breakdown_index(options, ss), "breakdown", ss)
        lo == min_year(rows, ind)
        hi == max_year(rows, ind)
        ss2 == Put(Put(ss, "indicator", ind), "breakdown", bd)
    IN  IF lo = hi THEN
            \* no slider is rendered: the widget state under its key may be dropped
            {[selected_indicator |-> ind, selected_breakdown |-> bd,
              year_range |-> <<lo, hi>>, slider |-> None,
              info |-> {MsgSingleYear}, ss |-> s] : s \in {ss2, Del(ss2, "year_range")}}
        ELSE
            {[selected_indicator |-> ind, selected_breakdown |-> bd,
              year_range |-> yr,
              slider |-> [min_value |-> lo, max_value |-> hi,
                          low |-> Min(lo, Min(yr[1], yr[2])),
                          high |-> Max(hi, Max(yr[1], yr[2]))],
              info |-> {}, ss |-> Put(ss2, "year_range", yr)]
             : yr \in slider_returns(lo, hi, slider_default(lo, hi, ss), ss, last)}

InRange_Exclusive(r, yr) == r.year >= yr[1] /\ r.year < yr[2]

\* (df_ind["year"] >= year_range[0]) & (df_ind["year"] <= year_range[1])
InRange(r, yr) == r.year >= yr[1] /\ r.year <= yr[2]

\* lines 310-314
apply_filters(rows, ind, bd, yr) ==
    LET df1 == ByIndicator(rows, ind)
        KeepYear(r) == InRange(r, yr)
        df2 == SelectSeq(df1, KeepYear)
        KeepBreakdown(r) == r.breakdown = bd
    IN  IF bd # Sentinel THEN SelectSeq(df2, KeepBreakdown) ELSE df2

RECURSIVE SumValues(_)
SumValues(rows) ==
    IF rows = <<>> THEN Zero
    ELSE RAdd(rows[1].value, SumValues(Tail(rows)))

\* Series.mean()
Mean(rows) == RDiv(SumValues(rows), FromInt(Len(rows)))

\* df_ind.groupby("year", as_index=False)["value"].mean().sort_values("year")
aggregate(rows) ==
    LET years == SortedInts({rows[i].year : i \in DOMAIN rows})
        Group(y) == LET InYear(r) == r.year = y IN SelectSeq(rows, InYear)
    IN  [i \in 1..Len(years) |-> [year |-> years[i], value |-> Mean(Group(years[i]))]]

stops_on_empty_Never(yearly) == FALSE

\* lines 324-326: if df_yearly.empty: st.warning(...); st.stop()
stops_on_empty(yearly) == yearly = <<>>

\* df_yearly.iloc[0] on a frame without rows (line 146)
IndexError == [raised |-> TRUE, error |-> "IndexError: single positional indexer is out-of-bounds"]

\* lines 400-405
trends_keyword(ind) ==
    Truncate(SplitFirst(SplitFirst(ind, ","), "("), MaxKeywordLen) \o TextBotswana

(***************************************************************************)
(* Inputs of the model.                                                    *)
(***************************************************************************)
MaxTrendRows == 1

NameHIV == <<"H", "I", "V">>
NameTB == <<"T", "B">>
NameMal == <<"M", "a", "l">>
Country == <<"B", "o", "t", "s", "w", "a", "n", "a">>

RawRow(code, name, year, numeric, dtype, dname) ==
    [year_display |-> year, gho_code |-> code, gho_display |-> name,
     numeric |-> numeric, country_display |-> Country,
     dimension_type |-> dtype, dimension_name |-> dname]

CodeCell == StrCell(<<"M">>)
Sex == StrCell(<<"S">>)
Female == StrCell(<<"F">>)
Male == StrCell(<<"M">>)

\* the HXL tag row of a WHO GHO extract
MetadataRow ==
    RawRow(StrCell(<<"#", "c">>), <<"#", "n">>, StrCell(<<"#", "y">>),
           StrCell(<<"#", "v">>), StrCell(<<"#", "t">>), StrCell(<<"#", "d">>))

\* HIV: 2000-2001 by sex (two rows in 2000, no value for males in 2001);
\* Mal: the single year 2002; TB: 2003-2004 without a dimension, starting at 0
GoodRaw ==
    << MetadataRow,
       RawRow(CodeCell, NameHIV, IntCell(2000), IntCell(10), Sex, Female),
       RawRow(CodeCell, NameHIV, StrCell(<<"2", "0", "0", "0">>), StrCell(<<"2", "0">>), Sex, Male),
       RawRow(CodeCell, NameTB, IntCell(2004), IntCell(5), NaN, NaN),
       RawRow(CodeCell, NameHIV, IntCell(2001), IntCell(11), Sex, Female),
       RawRow(CodeCell, NameHIV, IntCell(2001), NaN, Sex, Male),
       RawRow(CodeCell, NameMal, IntCell(2002), IntCell(7), Sex, Female),
       RawRow(CodeCell, NameTB, IntCell(2003), IntCell(0), NaN, NaN) >>

\* Mal: the single year 2002, twice; TB: 2001 and 2003, nothing in 2002
GapRaw ==
    << RawRow(CodeCell, NameTB, IntCell(2003), IntCell(9), Sex, Female),
       RawRow(CodeCell, NameMal, IntCell(2002), IntCell(7), Sex, Female),
       RawRow(CodeCell, NameMal, IntCell(2002), IntCell(8), Sex, Male),
       RawRow(CodeCell, NameTB, IntCell(2001), IntCell(10), Sex, Female) >>

\* a value that is text, not a number
TextValueRaw ==
    << RawRow(CodeCell, NameHIV, IntCell(2000), StrCell(<<"x">>), Sex, Female) >>

Sources ==
    { [readable |-> FALSE, rows |-> <<>>],
      [readable |-> TRUE, rows |-> <<MetadataRow>>],
      [readable |-> TRUE, rows |-> TextValueRaw],
      [readable |-> TRUE, rows |-> GapRaw],
      [readable |-> TRUE, rows |-> GoodRaw] }

\* what the search-interest provider can answer
Responses ==
    {[raises |-> TRUE]}
    \cup {[raises |-> FALSE, frame |-> EmptyFrame]}
    \cup {[raises |-> FALSE, frame |-> [n_rows |-> n, columns |-> c]] :
            n \in 1..MaxTrendRows, c \in {{"interest"}, {"interest", "isPartial"}}}

(***************************************************************************)
(* One run of the script with st.session_state = ss, caused by `op`.       *)
(***************************************************************************)
NothingShown ==
    /\ selected_indicator' = None
    /\ selected_breakdown' = None
    /\ year_range' = None
    /\ df_yearly' = None
    /\ slider' = None
    /\ filters_offered' = FALSE

NoTrendStage ==
    /\ trend_info' = None
    /\ narrative' = None
    /\ indicator_explainer' = NoText
    /\ trends_df' = None
    /\ propagated' = FALSE

\* lines 328-429.  st.cache_data (line 73) repeats an earlier result of the
\* same keyword, messages included; a run that asks the provider covers it.
TrendStage(sb, yearly, response) ==
    LET kw == trends_keyword(sb.selected_indicator)
        res == get_google_trends(kw, response)
    IN  IF yearly = <<>> THEN
            \* classify_trend raises at line 146 and the run ends there
            /\ stage' = "exception"
            /\ trend_info' = IndexError
            /\ narrative' = None
            /\ indicator_explainer' = NoText
            /\ trends_df' = None
            /\ propagated' = FALSE
            /\ messages' = sb.info
        ELSE
        /\ trend_info' = classify_trend(yearly)
        /\ narrative' = make_trend_narrative(sb.selected_indicator, classify_trend(yearly))
        /\ indicator_explainer' = describe_indicator(sb.selected_indicator)
        /\ IF res.raised
           THEN /\ stage' = "exception"
                /\ propagated' = TRUE
                /\ trends_df' = None
                /\ messages' = sb.info
           ELSE /\ stage' = "done"
                /\ propagated' = FALSE
                /\ trends_df' = res.frame
                /\ messages' = sb.info \cup res.warnings
                                \cup (IF IsEmpty(res.frame) THEN {MsgNoTrends} ELSE {})

RunScript(ss, op) ==
    /\ last_op' = op
    /\ prev_breakdown' = IF "breakdown" \in DOMAIN session_state
                         THEN session_state["breakdown"] ELSE None
    /\ UNCHANGED <<df, cleanVars, trendVars, describeVars>>
    /\ IF df.raised THEN
            \* line 238 raises
            /\ stage' = "exception"
            /\ messages' = {}
            /\ session_state' = ss
            /\ NothingShown /\ NoTrendStage
       ELSE IF df.rows = <<>> THEN
            \* line 240
            /\ stage' = "stopped_no_rows"
            /\ messages' = df.errors
            /\ session_state' = ss
            /\ NothingShown /\ NoTrendStage
       ELSE \E sb \in Sidebar(df.rows, ss, slider) :
            LET yearly == aggregate(apply_filters(df.rows, sb.selected_indicator,
                                                  sb.selected_breakdown, sb.year_range))
            IN  /\ selected_indicator' = sb.selected_indicator
                /\ selected_breakdown' = sb.selected_breakdown
                /\ year_range' = sb.year_range
                /\ slider' = sb.slider
                /\ session_state' = sb.ss
                /\ filters_offered' = TRUE
                /\ df_yearly' = yearly
                /\ IF stops_on_empty(yearly) THEN
                        \* lines 324-326
                        /\ stage' = "no_data"
                        /\ messages' = sb.info \cup {MsgNoData}
                        /\ NoTrendStage
                   ELSE \E response \in Responses : TrendStage(sb, yearly, response)

(***************************************************************************)
(* The interactions.                                                       *)
(***************************************************************************)
\* the session opens: the first run, with an empty st.session_state
Open ==
    /\ stage = "new_session"
    /\ RunScript(session_state, "open")

\* the user picks another indicator in the first selectbox
SelectIndicator ==
    /\ filters_offered
    /\ \E n \in Range(indicator_names(df.rows)) :
        /\ n # selected_indicator
        /\ RunScript(Put(session_state, "indicator", n), "indicator")

\* the user picks another entry of the breakdown selectbox
SelectBreakdown ==
    /\ filters_offered
    /\ \E b \in Range(breakdown_options_display(df.rows, selected_indicator)) :
        /\ b # selected_breakdown
        /\ RunScript(Put(session_state, "breakdown", b), "breakdown")

\* the user moves the ends of the year slider
SelectYearRange ==
    /\ filters_offered
    /\ slider # None
    /\ \E a \in slider.low..slider.high, b \in slider.low..slider.high :
        /\ a <= b
        /\ <<a, b>> # year_range
        /\ RunScript(Put(session_state, "year_range", <<a, b>>), "year_range")

Reset_KeepsBreakdown ==
    /\ filters_offered
    /\ RunScript(Del(Del(session_state, "indicator"), "year_range"), "reset")

\* lines 247-254: the reset button, and the run st.rerun() starts
Reset ==
    /\ filters_offered
    /\ RunScript(Del(Del(Del(session_state, "indicator"), "breakdown"), "year_range"),
                 "reset")

\* a run with no widget changed
Rerun ==
    /\ stage # "new_session"
    /\ RunScript(session_state, "rerun")

InitApp ==
    /\ \E source \in Sources : df = load_data(source)
    /\ session_state = EmptyState
    /\ slider = None
    /\ filters_offered = FALSE
    /\ selected_indicator = None
    /\ selected_breakdown = None
    /\ year_range = None
    /\ df_yearly = None
    /\ stage = "new_session"
    /\ messages = {}
    /\ trend_info = None
    /\ narrative = None
    /\ indicator_explainer = NoText
    /\ trends_df = None
    /\ propagated = FALSE
    /\ last_op = "none"
    /\ prev_breakdown = None

IdleClean == raw = None /\ cleaned = None
IdleTrend == points = None /\ trend = None
IdleDescribe == name_in = None /\ text_out = NoText

Init == InitApp /\ IdleClean /\ IdleTrend /\ IdleDescribe

Next ==
    \/ Open
    \/ SelectIndicator
    \/ SelectBreakdown
    \/ SelectYearRange
    \/ Reset
    \/ Rerun

Spec == Init /\ [][Next]_vars

(***************************************************************************)
(* The functions on their own, each applied to inputs drawn from bounded   *)
(* sets.                                                                   *)
(***************************************************************************)
IdleApp ==
    /\ df = [raised |-> FALSE, rows |-> <<>>, errors |-> {}]
    /\ session_state = EmptyState
    /\ slider = None
    /\ filters_offered = FALSE
    /\ selected_indicator = None
    /\ selected_breakdown = None
    /\ year_range = None
    /\ df_yearly = None
    /\ stage = "new_session"
    /\ messages = {}
    /\ trend_info = None
    /\ narrative = None
    /\ indicator_explainer = NoText
    /\ trends_df = None
    /\ propagated = FALSE
    /\ last_op = "none"
    /\ prev_breakdown = None

\* sequences over S of length 1..n
RECURSIVE SeqsUpTo(_, _)
SeqsUpTo(S, n) ==
    IF n = 0 THEN {}
    ELSE LET shorter == SeqsUpTo(S, n - 1)
         IN  {<<x>> : x \in S} \cup shorter \cup {Append(q, x) : q \in shorter, x \in S}

\* ---- classify_trend ----
MaxPoints == 3

TrendValues == {FromInt(-10), Zero, FromInt(8), FromInt(9), FromInt(10),
                FromInt(11), FromInt(12), Rat(21, 2)}

YearlyFrames ==
    {[i \in 1..Len(q) |-> [year |-> 1999 + i, value |-> q[i]]] :
        q \in SeqsUpTo(TrendValues, MaxPoints)}

InitTrend ==
    /\ points \in YearlyFrames
    /\ trend = None
    /\ IdleApp /\ IdleClean /\ IdleDescribe

Classify ==
    /\ trend = None
    /\ trend' = classify_trend(points)
    /\ UNCHANGED <<points, cleanVars, describeVars, appVars>>

\* another value at a point that is neither the first nor the last
ChangeIntermediate ==
    /\ trend # None
    /\ \E i \in 2..(Len(points) - 1), v \in TrendValues :
        /\ v # points[i].value
        /\ points' = [points EXCEPT ![i].value = v]
    /\ trend' = classify_trend(points')
    /\ UNCHANGED <<cleanVars, describeVars, appVars>>

NextTrend == Classify \/ ChangeIntermediate

SpecTrend == InitTrend /\ [][NextTrend]_vars

\* ---- describe_indicator ----
MaxWords == 2

Words == { <<"I", "n", "f", "a", "n", "t">>,
           <<"n", "e", "o", "n", "a", "t", "a", "l">>,
           <<"U", "n", "d", "e", "r", "-", "f", "i", "v", "e">>,
           <<"A", "d", "o", "l", "e", "s", "c", "e", "n", "t">>,
           <<"M", "a", "t", "e", "r", "n", "a", "l">>,
           <<"H", "I", "V">>,
           <<"T", "B">>,
           <<"t", "u", "b", "e", "r", "c", "u", "l", "o", "s", "i", "s">>,
           <<"S", "u", "i", "c", "i", "d", "e">>,
           <<"O", "u", "t", "b", "r", "e", "a", "k">>,
           <<"M", "a", "l", "a", "r", "i", "a">>,
           <<"r", "a", "t", "e">> }

RECURSIVE JoinWords(_)
JoinWords(ws) ==
    IF Len(ws) = 1 THEN ws[1]
    ELSE ws[1] \o <<" ">> \o JoinWords(Tail(ws))

IndicatorNames == {JoinWords(ws) : ws \in SeqsUpTo(Words, MaxWords)}

InitDescribe ==
    /\ name_in \in IndicatorNames
    /\ text_out = NoText
    /\ IdleApp /\ IdleClean /\ IdleTrend

Describe ==
    /\ text_out = NoText
    /\ text_out' = describe_indicator(name_in)
    /\ UNCHANGED <<name_in, cleanVars, trendVars, appVars>>

NextDescribe == Describe

SpecDescribe == InitDescribe /\ [][NextDescribe]_vars

\* ---- clean_who_botswana and load_data ----
MaxRawRows == 2

RawRowChoices ==
    { MetadataRow,
      RawRow(CodeCell, NameHIV, IntCell(2000), IntCell(10), Sex, Female),
      RawRow(CodeCell, NameTB, StrCell(<<"2", "0", "0", "1">>), StrCell(<<"5">>), NaN, NaN),
      RawRow(CodeCell, NameHIV, IntCell(2000), NaN, Sex, Male),
      RawRow(CodeCell, NameHIV, IntCell(2001), StrCell(<<"x">>), Sex, NaN),
      RawRow(CodeCell, NameMal, StrCell(<<"2", "0", "0", "0", "-", "1">>), IntCell(3), NaN, Male),
      RawRow(StrCell(<<"#", "c">>), NameMal, IntCell(2002), IntCell(4), Sex, Male),
      RawRow(CodeCell, NameTB, StrCell(<<"x">>), NaN, Sex, Female) }

InitClean ==
    /\ raw \in SeqsUpTo(RawRowChoices, MaxRawRows) \cup {<<>>}
    /\ cleaned = None
    /\ IdleApp /\ IdleTrend /\ IdleDescribe

Clean ==
    /\ cleaned = None
    /\ cleaned' = clean_who_botswana(raw)
    /\ UNCHANGED <<raw, trendVars, describeVars, appVars>>

\* load_data on a file holding the rows of raw, or on an unreadable file
Load ==
    /\ stage = "new_session"
    /\ \E readable \in BOOLEAN :
        df' = load_data([readable |-> readable, rows |-> raw])
    /\ stage' = "loaded"
    /\ UNCHANGED <<cleanVars, trendVars, describeVars, session_state, slider,
                   filters_offered, selected_indicator, selected_breakdown,
                   year_range, df_yearly, messages, trend_info, narrative,
                   indicator_explainer, trends_df, propagated, last_op,
                   prev_breakdown>>

NextClean == Clean \/ Load

SpecClean == InitClean /\ [][NextClean]_vars

(***************************************************************************)
(* The properties.                                                         *)
(***************************************************************************)

\* ---- classify_trend (SpecTrend) ----
C1_FirstAndLast ==
    trend # None =>
        LET first == points[1]
            last == points[Len(points)]
            s == first.value
            e == last.value
            pct == trend.percent_change
        IN  /\ trend.start_year = first.year /\ trend.end_year = last.year
            /\ trend.start_val = s /\ trend.end_val = e
            /\ (pct = None) <=> (s[1] = 0)
            \* pct = (e - s) / s * 100, cross-multiplied
            /\ s[1] # 0 =>
                  pct[1] * (e[2] * s[1]) = pct[2] * ((e[1] * s[2] - s[1] * e[2]) * 100)
            /\ (trend.label = "uncertain") <=> (pct = None)
            /\ (trend.label = "increasing") <=>
                  (pct # None /\ pct[1] > 10 * pct[2])
            /\ (trend.label = "decreasing") <=>
                  (pct # None /\ pct[1] < (-10) * pct[2])
            /\ (trend.label = "relatively stable") <=>
                  (pct # None /\ pct[1] <= 10 * pct[2]
                              /\ pct[1] >= (-10) * pct[2])

C1_OnlyIntermediateChanged ==
    /\ trend # None /\ trend' # None
    /\ Len(points') = Len(points)
    /\ points'[1] = points[1]
    /\ points'[Len(points)] = points[Len(points)]

\* C1: classify_trend reads only the first and the last point: percent_change
\* is null exactly when the first value is 0 and otherwise equals
\* (end - start) / start * 100; the label is uncertain iff percent_change is
\* null, increasing iff it is > 10, decreasing iff it is < -10 and relatively
\* stable otherwise, exactly +10 and -10 included; changing an intermediate
\* point never changes the result.
C1_ClassifyTrend ==
    /\ []C1_FirstAndLast
    /\ [][C1_OnlyIntermediateChanged => trend' = trend]_vars

\* an intermediate point was changed and the change is exactly +10 percent
C1_Witness ==
    /\ trend # None
    /\ Len(points) = 3
    /\ points[2].value # points[1].value
    /\ trend.percent_change = FromInt(10)
    /\ trend.label = "relatively stable"

\* C2 as stated: every single-element sequence, a value of 0 included, gives
\* absolute_change = 0 and the label relatively stable, and percent_change 0
\* unless the value is 0.
C2_SinglePointAlwaysStable ==
    (trend # None /\ Len(points) = 1) =>
        /\ trend.absolute_change = Zero
        /\ trend.label = "relatively stable"
        /\ (points[1].value # Zero => trend.percent_change = Zero)

\* C2 amended: a single-element sequence gives absolute_change = 0; when its
\* value is not 0, percent_change is 0 and the label is relatively stable;
\* when its value is 0, percent_change is null and the label is uncertain.
C2_SinglePoint ==
    (trend # None /\ Len(points) = 1) =>
        /\ trend.absolute_change = Zero
        /\ points[1].value # Zero =>
              (trend.percent_change = Zero /\ trend.label = "relatively stable")
        /\ points[1].value = Zero =>
              (trend.percent_change = None /\ trend.label = "uncertain")

C2_Witness ==
    /\ trend # None
    /\ Len(points) = 1
    /\ points[1].value = Zero
    /\ trend.label = "uncertain"

\* ---- describe_indicator (SpecDescribe) ----
KeywordGroups ==
    << {KW_infant, KW_neonatal, KW_under_five}, {KW_adolescent}, {KW_maternal},
       {KW_hiv}, {KW_tb, KW_tuberculosis}, {KW_suicide} >>

GroupTexts == <<TextChild, TextAdolescent, TextMaternal, TextHiv, TextTb, TextSuicide>>

\* some keyword of group g occurs in the name, whatever the case of its letters
GroupMatches(g, name) == \E kw \in KeywordGroups[g] : Contains(Lower(name), kw)

\* C9: describe_indicator returns the text of the first group, in the order
\* infant/neonatal/under-five, adolescent, maternal, hiv, tb/tuberculosis,
\* suicide, that has a keyword occurring in the name (case-insensitively), and
\* the generic text if and only if no group has one.
C9_DescribeRouting ==
    text_out # NoText =>
        LET matching == {g \in DOMAIN KeywordGroups : GroupMatches(g, name_in)}
        IN  /\ (text_out = TextGeneric) <=> (matching = {})
            /\ \A g \in matching :
                  (\A h \in matching : g <= h) => text_out = GroupTexts[g]

\* a name with keywords of two groups gets the text of the earlier one
C9_Witness ==
    /\ text_out = TextMaternal
    /\ Contains(Lower(name_in), KW_hiv)
    /\ Contains(Lower(name_in), KW_maternal)

\* ---- clean_who_botswana (SpecClean) ----
NumericUsable(r) == r.numeric.t # "nan" /\ FloatParses(r.numeric)

NotMetadata(r) == NoHashYear(r) /\ NoHashCode(r)

C7_Survives(r) == NotMetadata(r) /\ NumericUsable(r)

\* C7: for every raw input, clean_who_botswana omits each row whose numeric
\* value is absent or unparseable, without raising, and returns the remaining
\* rows (stated for the inputs whose remaining rows have a parseable year).
C7_OmitsWithoutRaising ==
    (/\ cleaned # None
     /\ \A i \in DOMAIN raw : C7_Survives(raw[i]) => IntParses(raw[i].year_display))
    => /\ ~cleaned.raised
       /\ LET kept == SelectSeq(raw, C7_Survives)
          IN  cleaned.rows = [i \in DOMAIN kept |-> CleanRow(kept[i])]

\* ---- the script (Spec) ----
RECURSIVE SumAt(_, _)
SumAt(rows, I) ==
    IF I = {} THEN Zero
    ELSE LET i == CHOOSE j \in I : TRUE
         IN  RAdd(rows[i].value, SumAt(rows, I \ {i}))

C3_Matches(r) ==
    /\ r.gho_display = selected_indicator
    /\ year_range[1] <= r.year /\ r.year <= year_range[2]
    /\ (selected_breakdown = Sentinel \/ r.breakdown = selected_breakdown)

\* C3: the aggregated result has exactly one point for each distinct year with
\* an observation that has the selected indicator name, a year within the range
\* and (the selector being the sentinel, or) the selected breakdown; its value
\* is the arithmetic mean of exactly those observations; the points are in
\* strictly ascending year order.
C3_Aggregation ==
    filters_offered =>
        LET rows == df.rows
            At(y) == {i \in DOMAIN rows : C3_Matches(rows[i]) /\ rows[i].year = y}
        IN  /\ \A i \in DOMAIN rows :
                  C3_Matches(rows[i]) =>
                      Cardinality({k \in DOMAIN df_yearly :
                                      df_yearly[k].year = rows[i].year}) = 1
            /\ \A k \in DOMAIN df_yearly :
                  /\ At(df_yearly[k].year) # {}
                  /\ RMul(df_yearly[k].value, FromInt(Cardinality(At(df_yearly[k].year))))
                        = SumAt(rows, At(df_yearly[k].year))
            /\ \A k \in 1..(Len(df_yearly) - 1) :
                  df_yearly[k].year < df_yearly[k + 1].year

\* the two observations of 2000, 10 and 20, are averaged to 15
C3_Witness ==
    /\ filters_offered
    /\ selected_breakdown = Sentinel
    /\ \E k \in DOMAIN df_yearly :
          /\ df_yearly[k].value = FromInt(15)
          /\ Cardinality({i \in DOMAIN df.rows :
                 C3_Matches(df.rows[i]) /\ df.rows[i].year = df_yearly[k].year}) = 2

\* C4: in every reachable state the year range handed to the filter is a pair
\* (start, end) with min_year <= start <= end <= max_year of the selected
\* indicator, also when a range stored for one indicator is used again after
\* switching to an indicator whose years do not overlap it.
C4_RangeWithinSpan ==
    filters_offered =>
        /\ min_year(df.rows, selected_indicator) <= year_range[1]
        /\ year_range[1] <= year_range[2]
        /\ year_range[2] <= max_year(df.rows, selected_indicator)

C5_Default(rows) ==
    LET first == CHOOSE n \in {rows[i].gho_display : i \in DOMAIN rows} :
                    \A i \in DOMAIN rows :
                        rows[i].gho_display = n \/ StrLess(n, rows[i].gho_display)
        years == {rows[i].year : i \in {j \in DOMAIN rows : rows[j].gho_display = first}}
    IN  [indicator |-> first, breakdown |-> Sentinel,
         year_range |-> <<SetMin(years), SetMax(years)>>]

\* C5: after the reset action and the run it starts, the three selections are
\* at their first-load defaults: the first indicator name in sorted order, the
\* sentinel breakdown and the full year span of that indicator; nothing chosen
\* before the reset survives in st.session_state.
C5_ResetRestoresDefaults ==
    (last_op = "reset" /\ filters_offered) =>
        LET d == C5_Default(df.rows)
        IN  /\ selected_indicator = d.indicator
            /\ selected_breakdown = d.breakdown
            /\ year_range = d.year_range
            /\ session_state["indicator"] = d.indicator
            /\ session_state["breakdown"] = d.breakdown
            /\ "year_range" \in DOMAIN session_state =>
                  session_state["year_range"] = d.year_range

\* a reset taken while a breakdown other than the sentinel was selected
C5_Witness ==
    /\ last_op = "reset"
    /\ filters_offered
    /\ prev_breakdown # None
    /\ prev_breakdown # Sentinel
    /\ selected_breakdown = Sentinel

C6_StopsOnEmpty ==
    /\ (filters_offered /\ df_yearly = <<>>) =>
          /\ stage = "no_data"
          /\ trend_info = None
          /\ narrative = None
          /\ MsgNoData \in messages
    /\ stage = "no_data" => filters_offered
    /\ trend_info # None => df_yearly # <<>>

\* the reset offered with the filters is an interaction that leaves no-data
C6_ResetLeavesNoData ==
    (stage = "no_data" /\ last_op' = "reset") => stage' = "done"

\* C6: whenever the filtered set is empty for the current selection, the run
\* stops before classify_trend and make_trend_narrative (classify_trend is
\* never applied to an empty sequence), the no-data warning is reported, and
\* the filters were offered in that run, so that a following interaction (the
\* reset, for one) chooses another selection and reaches the trend stage.
C6_EmptyStopsBeforeTrend ==
    /\ []C6_StopsOnEmpty
    /\ [][C6_ResetLeavesNoData]_vars

\* males of HIV have no value in 2001
C6_Witness ==
    /\ filters_offered
    /\ df_yearly = <<>>
    /\ selected_breakdown # Sentinel
    /\ year_range[1] <= year_range[2]
    /\ stage = "no_data"

\* C8: a failure of the search-interest lookup is caught in get_google_trends
\* and returned as an empty result plus a warning, never propagated; the yearly
\* points, trend summary, explanation and narrative shown are those of the
\* selection whatever the lookup did.
C8_LookupIsolated ==
    /\ ~propagated
    /\ (filters_offered /\ df_yearly # <<>>) =>
          /\ stage = "done"
          /\ trends_df # None
          /\ MsgTrendsFailed(trends_keyword(selected_indicator)) \in messages
                => IsEmpty(trends_df)
          /\ df_yearly = aggregate(apply_filters(df.rows, selected_indicator,
                                                 selected_breakdown, year_range))
          /\ trend_info = classify_trend(df_yearly)
          /\ narrative = make_trend_narrative(selected_indicator, trend_info)
          /\ indicator_explainer = describe_indicator(selected_indicator)

\* the lookup failed and the trend of the selection is shown
C8_Witness ==
    /\ stage = "done"
    /\ MsgTrendsFailed(trends_keyword(selected_indicator)) \in messages
    /\ IsEmpty(trends_df)
    /\ trend_info.label = "decreasing"
    /\ indicator_explainer = TextHiv

\* C10: the breakdown used for filtering is the sentinel or a breakdown label
\* of the selected indicator's observations; a stored breakdown the newly
\* selected indicator does not have falls back to the sentinel.
C10_BreakdownOfIndicator ==
    filters_offered =>
        \/ selected_breakdown = Sentinel
        \/ \E i \in DOMAIN df.rows :
              /\ df.rows[i].gho_display = selected_indicator
              /\ df.rows[i].breakdown = selected_breakdown

\* the indicator was switched while a breakdown it does not have was stored
C10_Witness ==
    /\ last_op = "indicator"
    /\ filters_offered
    /\ prev_breakdown # None
    /\ prev_breakdown # Sentinel
    /\ \A i \in DOMAIN df.rows :
          df.rows[i].gho_display = selected_indicator
              => df.rows[i].breakdown # prev_breakdown
    /\ selected_breakdown = Sentinel

====
